---- MODULE Spec2Model ----
(***************************************************************************)
(* State-machine model of src/src/main.cpp (ESP32 pressure / flow anomaly  *)
(* tracker): the two history buffers, the pulse counter shared with the    *)
(* edge interrupt, the flow-rate calculator, the threshold evaluation, the *)
(* two event loggers, the diagnostic ring buffer and the configuration.    *)
(*                                                                         *)
(* Numbers.  The program computes in float; the model computes exactly:    *)
(*   - a pressure sample is held as the raw reading in Pa, i.e. in units   *)
(*     of 0.01 hPa (the code stores raw / 100.0);                          *)
(*   - a flow rate is held in units of 1/FlowScale L/min;                  *)
(*   - a threshold percentage is held in units of 1/PctScale percent;      *)
(*   - an average and a threshold are rationals [num, den].                *)
(* Float rounding is therefore not modelled.                               *)
(* Text.  A diagnostic message is held as its format string (its kind);    *)
(* the formatted numbers and the 79-character truncation are not modelled. *)
(***************************************************************************)
EXTENDS Integers, Sequences, FiniteSets, TLC

(***************************************************************************)
(* Program constants                                                       *)
(***************************************************************************)
SERIAL_BUFFER_SIZE == 100
PRESSURE_HISTORY_SIZE == 10
PulseWidth == 65536
InitLastLogTime == 3000
LogGateMs == 2500
FlowCheckMs == 1000
MinElapsedMs == 100
STATUS_UPDATE_INTERVAL == 10000
SetupDelayMs == 2000
BmpRetryDelayMs == 500
BmpMaxRetries == 5
GpsDetectMs == 5000
GpsMinChars == 10
MaxInt32 == 2147483647

\* units of the exact arithmetic
PctScale == 10 * 100
FlowScale == 15 * 5040
DefaultPressureThreshold == 2 * 100
DefaultFlowThreshold == 20 * PctScale

(***************************************************************************)
(* Bounds of the model                                                     *)
(***************************************************************************)
MaxIter == 3
MaxEdges == 2
MaxPosts == 1
MaxPushes == 12
MaxRecords == 105
MaxTicks == 1

\* inputs
Delays == {500, 1000, 3000}
PressureReadings == {0, 49900, 50100, 50400}
RtcOutcomes == {"ok", "absent"}
BmpFailures == {0, 7}
SensorArgs == {"BMP", "YF401"}
ThresholdArgs == {0, 20 * PctScale}
BufValues == {1, 3}
\* arguments of a POST /config in the round trip of the configuration
CfgThresholdArgs == {0, 125, 2 * 100, 20 * PctScale}
CfgSsidArgs == {"Aspol Tracker", "field unit "}
CfgPasswordArgs == {"", "secret"}
\* sensorType of a POST: a defined mode, another name, or the argument left out
CfgSensorArgs == SensorArgs \cup {"DHT22", ""}

(***************************************************************************)
(* Arithmetic helpers                                                      *)
(***************************************************************************)
Max(a, b) == IF a >= b THEN a ELSE b
Min(a, b) == IF a <= b THEN a ELSE b
Abs(a) == IF a < 0 THEN -a ELSE a

RECURSIVE GCD(_, _)
GCD(a, b) == IF b = 0 THEN a ELSE GCD(b, a % b)

\* the rational n/d (d > 0) in lowest terms
Rat(n, d) ==
    LET g == GCD(Abs(n), d)
    IN  IF g = 0 THEN [num |-> 0, den |-> 1] ELSE [num |-> n \div g, den |-> d \div g]

RMul(a, b) == [num |-> a.num * b.num, den |-> a.den * b.den]
RGt(a, b) == a.num * b.den > b.num * a.den
REq(a, b) == Rat(a.num, a.den) = Rat(b.num, b.den)

RECURSIVE SumTo(_, _)
\* readings[0] + ... + readings[n-1]
SumTo(readings, n) == IF n = 0 THEN 0 ELSE SumTo(readings, n - 1) + readings[n - 1]

RECURSIVE SeqSum(_)
SeqSum(s) == IF s = <<>> THEN 0 ELSE Head(s) + SeqSum(Tail(s))

\* the last n elements of s (all of s when it is shorter)
LastN(s, n) == IF Len(s) <= n THEN s ELSE SubSeq(s, Len(s) - n + 1, Len(s))

\* unsigned 32-bit (a - b) > k, for 0 <= a, b <= MaxInt32 and 0 <= k:
\* when a < b the difference wraps to 2^32 - (b - a)
U32DiffGt(a, b, k) ==
    IF a >= b THEN a - b > k
    ELSE MaxInt32 - (b - a) > k - MaxInt32 - 2

VARIABLES
    pc,                 \* position of the main program
    now,                \* millis()
    iter,               \* loop iterations started
    retryCount,         \* initBMP's local
    bmpFailsLeft,       \* environment: bmp.begin() calls that will still fail
    pressureHistory, flowHistory,
    pulseCount, attached, flowRate,
    lastLogTime, lastCheckTime, lastStatusUpdate,
    currentTime, timeDiff,      \* checkFlowAndLog's locals
    serialBuffer, serialBufferIndex, totalMessages,
    currentConfig, sdCardAvailable, rtcInitialized, bmpInitialized,
    gpsChars, gpsValid,         \* gps.charsProcessed(), gps.location.isValid()
    configFile, gpsLog, flowLog, \* /config.txt, /gps_log.txt, /flow_log.txt
    posts,              \* POST /config requests served
    \* history variables, read by the properties only
    edgesTotal, drainedTotal, deliveredSinceZero, drainedCount,
    pressurePushed, flowPushed,
    flowAnomalies,      \* anomalous flow evaluations made so far
    printed,            \* every record serialPrintln has stored, in order
    ev                  \* the threshold evaluation of the current iteration

vars == <<pc, now, iter, retryCount, bmpFailsLeft, pressureHistory, flowHistory,
          pulseCount, attached, flowRate, lastLogTime, lastCheckTime,
          lastStatusUpdate, currentTime, timeDiff, serialBuffer,
          serialBufferIndex, totalMessages, currentConfig, sdCardAvailable,
          rtcInitialized, bmpInitialized, gpsChars, gpsValid, configFile,
          gpsLog, flowLog, posts, edgesTotal, drainedTotal, deliveredSinceZero,
          drainedCount, pressurePushed, flowPushed, flowAnomalies, printed, ev>>

isrVars == <<pulseCount, edgesTotal, deliveredSinceZero>>
histVars == <<pressureHistory, flowHistory, pressurePushed, flowPushed>>
diagVars == <<serialBuffer, serialBufferIndex, totalMessages, printed>>
flowLocals == <<currentTime, timeDiff, drainedCount>>
hwVars == <<sdCardAvailable, rtcInitialized, bmpInitialized>>
gpsVars == <<gpsChars, gpsValid>>
fileVars == <<configFile, gpsLog, flowLog>>
clockVars == <<lastLogTime, lastCheckTime, lastStatusUpdate>>


(***************************************************************************)
(* Data operations                                                         *)
(***************************************************************************)
Slots == 0 .. (PRESSURE_HISTORY_SIZE - 1)
EmptyHistory == [readings |-> [i \in Slots |-> 0], index |-> 0, count |-> 0]

addPressureReading(h, pressure) ==
    [readings |-> [h.readings EXCEPT ![h.index] = pressure],
     index |-> (h.index + 1) % PRESSURE_HISTORY_SIZE,
     count |-> IF h.count < PRESSURE_HISTORY_SIZE THEN h.count + 1 ELSE h.count]

\* mutant: the sum is divided by the capacity, not by the count
calculateAveragePressureOverCapacity(h) ==
    IF h.count = 0 THEN [num |-> 0, den |-> 1]
    ELSE [num |-> SumTo(h.readings, h.count), den |-> PRESSURE_HISTORY_SIZE]

calculateAveragePressure(h) ==
    IF h.count = 0 THEN [num |-> 0, den |-> 1]
    ELSE [num |-> SumTo(h.readings, h.count), den |-> h.count]

\* mutant: the count is not capped at the capacity
addFlowReadingNoCap(h, flow) ==
    [readings |-> [h.readings EXCEPT ![h.index] = flow],
     index |-> (h.index + 1) % PRESSURE_HISTORY_SIZE,
     count |-> h.count + 1]

addFlowReading(h, flow) ==
    [readings |-> [h.readings EXCEPT ![h.index] = flow],
     index |-> (h.index + 1) % PRESSURE_HISTORY_SIZE,
     count |-> IF h.count < PRESSURE_HISTORY_SIZE THEN h.count + 1 ELSE h.count]

calculateAverageFlow(h) ==
    IF h.count = 0 THEN [num |-> 0, den |-> 1]
    ELSE [num |-> SumTo(h.readings, h.count), den |-> h.count]

\* mutant: the margin is taken off the average, 1 - pct / 100.0
ThresholdFactorInverted(pct) == Rat(100 * PctScale - pct, 100 * PctScale)

\* 1 + pct / 100.0
ThresholdFactor(pct) == Rat(100 * PctScale + pct, 100 * PctScale)

\* averagePressure * (1 + currentConfig.pressureThreshold / 100.0)
PressureThresholdLevel(average, config) ==
    RMul(average, ThresholdFactor(config.pressureThreshold))

\* averageFlow * (1.0 + (currentConfig.flowThreshold / 100.0))
FlowThresholdLevel(average, config) ==
    RMul(average, ThresholdFactor(config.flowThreshold))

\* pressure > thresholdLevel
PressureExceeds(pressure, thresholdLevel) ==
    RGt([num |-> pressure, den |-> 1], thresholdLevel)

\* mutant: flowRate >= threshold
FlowExceedsOrEquals(rate, threshold) ==
    ~RGt(threshold, [num |-> rate, den |-> 1])

\* flowRate > threshold
FlowExceeds(rate, threshold) ==
    RGt([num |-> rate, den |-> 1], threshold)

\* mutant: the gate uses the 100 ms floor of the rate calculator
FlowGateShort(t, last) == U32DiffGt(t, last, MinElapsedMs)

\* millis() - lastLogTime > 2500, in unsigned 32-bit arithmetic
FlowGate(t, last) == U32DiffGt(t, last, LogGateMs)

\* (pulseCount / calibrationFactor) * (1000.0 / max(timeDiff, test1)),
\* calibrationFactor = 7.5, in units of 1/FlowScale L/min
FlowRateOf(count, elapsed) ==
    (count * FlowScale * 400) \div (3 * Max(elapsed, MinElapsedMs))

(***************************************************************************)
(* Diagnostic ring buffer                                                  *)
(***************************************************************************)
SerialSlots == 0 .. (SERIAL_BUFFER_SIZE - 1)
\* log is the history of the records stored, kept for the properties
Diag == [buf |-> serialBuffer, idx |-> serialBufferIndex, tot |-> totalMessages,
         log |-> printed]

serialPrintln(d, message, t) ==
    [buf |-> [d.buf EXCEPT ![d.idx] = [timestamp |-> t, message |-> message]],
     idx |-> (d.idx + 1) % SERIAL_BUFFER_SIZE,
     tot |-> IF d.tot < SERIAL_BUFFER_SIZE THEN d.tot + 1 ELSE d.tot,
     log |-> Append(d.log, [timestamp |-> t, message |-> message])]

RECURSIVE PrintAll(_, _, _)
\* serialPrintln of each message of msgs, in order
PrintAll(d, msgs, t) ==
    IF msgs = <<>> THEN d
    ELSE PrintAll(serialPrintln(d, Head(msgs), t), Tail(msgs), t)

SetDiag(d) ==
    /\ serialBuffer' = d.buf
    /\ serialBufferIndex' = d.idx
    /\ totalMessages' = d.tot
    /\ printed' = d.log

\* mutant: the walk starts at slot 0
SnapshotFromZero(d) ==
    [i \in 1 .. d.tot |-> d.buf[(i - 1) % SERIAL_BUFFER_SIZE]]

\* handleSerial's walk of the buffer: the records from the oldest to the newest
Snapshot(d) ==
    LET start == (d.idx - d.tot + SERIAL_BUFFER_SIZE) % SERIAL_BUFFER_SIZE
    IN  [i \in 1 .. d.tot |-> d.buf[(start + (i - 1)) % SERIAL_BUFFER_SIZE]]

(***************************************************************************)
(* Configuration                                                           *)
(***************************************************************************)
DefaultConfig ==
    [ssid |-> "Aspol Tracker", password |-> "sulungresearch",
     deviceName |-> "PressureTracker", currentSensor |-> "BMP",
     pressureThreshold |-> DefaultPressureThreshold,
     flowThreshold |-> DefaultFlowThreshold]

\* /config.txt is absent
NoFile == [exists |-> FALSE]

\* Print::println(float): two decimals, rounded half away from zero
PrintFloat(x) ==
    LET unit == PctScale \div 100
    IN  IF x >= 0 THEN ((x + unit \div 2) \div unit) * unit
        ELSE -(((-x + unit \div 2) \div unit) * unit)

\* a line of /config.txt where a threshold is expected: a number, or a line
\* without any digit (empty, or text)
NumberLine(x) == [isNumber |-> TRUE, value |-> x]
TextLine == [isNumber |-> FALSE, value |-> 0]

\* the two calls of Stream::parseFloat on the rest of the file: each skips
\* every character that is not part of a number, line breaks included, and
\* returns the next number, or 0 when the file ends first
parseFloats(lines) ==
    LET numbers == SelectSeq(lines, LAMBDA l : l.isNumber)
    IN  [first |-> IF Len(numbers) >= 1 THEN numbers[1].value ELSE 0,
         second |-> IF Len(numbers) >= 2 THEN numbers[2].value ELSE 0]

\* the six lines saveConfig writes
ConfigLines(config) ==
    [exists |-> TRUE, ssid |-> config.ssid, password |-> config.password,
     deviceName |-> config.deviceName, currentSensor |-> config.currentSensor,
     pressureThreshold |-> NumberLine(PrintFloat(config.pressureThreshold)),
     flowThreshold |-> NumberLine(PrintFloat(config.flowThreshold))]

\* SD.open of /config.txt succeeds exactly when the card is mounted
saveConfig(file, config, mounted) ==
    IF ~mounted
    THEN [file |-> file, msgs |-> <<"Failed to open config file for writing">>]
    ELSE [file |-> ConfigLines(config), msgs |-> <<"Configuration saved to SD card">>]

\* String::trim on the strings of the model: one of them ends with a space
Trim(str) == IF str = "field unit " THEN "field unit" ELSE str

loadConfig(file, config) ==
    IF file = NoFile
    THEN [config |-> config, msgs |-> <<"No config file found, using defaults">>]
    ELSE LET parsed == parseFloats(<<file.pressureThreshold, file.flowThreshold>>)
             pressureThreshold == parsed.first
             flowThreshold == parsed.second
         IN
         [config |->
            [ssid |-> Trim(file.ssid), password |-> Trim(file.password),
             deviceName |-> Trim(file.deviceName),
             currentSensor |-> Trim(file.currentSensor),
             pressureThreshold |->
                 IF pressureThreshold > 0 THEN pressureThreshold
                 ELSE config.pressureThreshold,
             flowThreshold |->
                 IF flowThreshold > 0 THEN flowThreshold
                 ELSE config.flowThreshold],
          msgs |-> <<"Configuration loaded from SD card">>]

FlowFile == ConfigLines([DefaultConfig EXCEPT !.currentSensor = "YF401"])
InitialFiles == {NoFile, FlowFile}

\* what a threshold line of a /config.txt found on the card may hold
ThresholdLines ==
    {TextLine, NumberLine(0), NumberLine(-1 * PctScale), NumberLine(5 * 100),
     NumberLine(30 * PctScale)}

\* the files a card may hold at boot, written by hand or by another version
PersistedFiles ==
    {[exists |-> TRUE, ssid |-> ssid, password |-> DefaultConfig.password,
      deviceName |-> DefaultConfig.deviceName, currentSensor |-> sensor,
      pressureThreshold |-> p, flowThreshold |-> f] :
        ssid \in CfgSsidArgs, sensor \in SensorArgs,
        p \in ThresholdLines, f \in ThresholdLines}

(***************************************************************************)
(* Event loggers                                                           *)
(***************************************************************************)
\* mutant: the pressure logger is rate-limited like the flow path
logGPSDataGated(log, d, pressure, openOk, t) ==
    IF ~sdCardAvailable \/ ~gpsValid THEN [log |-> log, diag |-> d]
    ELSE IF log # <<>> /\ t - log[Len(log)].at <= LogGateMs THEN [log |-> log, diag |-> d]
    ELSE IF openOk
         THEN [log |-> Append(log, [value |-> pressure, at |-> t]),
               diag |-> serialPrintln(d, "Logged data: %.2f hPa", t)]
         ELSE [log |-> log, diag |-> serialPrintln(d, "Failed to open log file", t)]

\* logGPSData: openOk is whether SD.open("/gps_log.txt", FILE_APPEND) succeeds
logGPSData(log, d, pressure, openOk, t) ==
    IF ~sdCardAvailable \/ ~gpsValid THEN [log |-> log, diag |-> d]
    ELSE IF openOk
         THEN [log |-> Append(log, [value |-> pressure, at |-> t]),
               diag |-> serialPrintln(d, "Logged data: %.2f hPa", t)]
         ELSE [log |-> log, diag |-> serialPrintln(d, "Failed to open log file", t)]

\* mutant: the flow logger does not look at the fix
logGPSDataFlowNoFixCheck(log, d, flow, openOk, t) ==
    IF ~sdCardAvailable THEN [log |-> log, diag |-> d]
    ELSE IF openOk
         THEN [log |-> Append(log, [value |-> flow, at |-> t]), diag |-> d]
         ELSE [log |-> log, diag |-> d]

\* logGPSDataFlow: openOk is whether SD.open("/flow_log.txt", FILE_APPEND) succeeds
logGPSDataFlow(log, d, flow, openOk, t) ==
    IF ~sdCardAvailable \/ ~gpsValid THEN [log |-> log, diag |-> d]
    ELSE IF openOk
         THEN [log |-> Append(log, [value |-> flow, at |-> t]), diag |-> d]
         ELSE [log |-> log, diag |-> d]

NoEval ==
    [kind |-> "none", live |-> 0, average |-> [num |-> 0, den |-> 1],
     threshold |-> [num |-> 0, den |-> 1], pct |-> 0, anomalous |-> FALSE,
     gate |-> FALSE, fix |-> FALSE, card |-> FALSE, openOk |-> FALSE,
     drained |-> FALSE, at |-> 0, before |-> 0, after |-> 0, loggerMsg |-> "none"]


(***************************************************************************)
(* Initial state: the globals as constructed, before setup() runs.         *)
(* The environment is the card's /config.txt and how many calls of         *)
(* bmp.begin() will fail.                                                  *)
(***************************************************************************)
Init ==
    /\ pc = "boot"
    /\ now = 0
    /\ iter = 0
    /\ retryCount = 0
    /\ bmpFailsLeft \in BmpFailures
    /\ pressureHistory = EmptyHistory
    /\ flowHistory = EmptyHistory
    /\ pulseCount = 0
    /\ attached = FALSE
    /\ flowRate = 0
    /\ lastLogTime = InitLastLogTime
    /\ lastCheckTime = 0
    /\ lastStatusUpdate = 0
    /\ currentTime = 0
    /\ timeDiff = 0
    /\ serialBuffer = [i \in SerialSlots |-> [timestamp |-> 0, message |-> ""]]
    /\ serialBufferIndex = 0
    /\ totalMessages = 0
    /\ printed = <<>>
    /\ currentConfig = DefaultConfig
    /\ sdCardAvailable = FALSE
    /\ rtcInitialized = FALSE
    /\ bmpInitialized = FALSE
    /\ gpsChars = 0
    /\ gpsValid = FALSE
    /\ configFile \in InitialFiles
    /\ gpsLog = <<>>
    /\ flowLog = <<>>
    /\ posts = 0
    /\ edgesTotal = 0
    /\ drainedTotal = 0
    /\ deliveredSinceZero = 0
    /\ drainedCount = 0
    /\ pressurePushed = <<>>
    /\ flowPushed = <<>>
    /\ flowAnomalies = 0
    /\ ev = NoEval

(***************************************************************************)
(* setup()                                                                 *)
(***************************************************************************)
SetupPcs == {"boot", "initRTC", "initBMP", "initBMPResult", "initSD", "attach"}

\* setup, lines 716-721
SetupBegin ==
    /\ pc = "boot"
    /\ now' = now + SetupDelayMs
    /\ SetDiag(PrintAll(Diag, <<"System starting...", "GPS serial initialized">>, now'))
    /\ pc' = "initRTC"
    /\ UNCHANGED <<iter, retryCount, bmpFailsLeft, histVars, isrVars, attached,
                   flowRate, clockVars, flowLocals, currentConfig, hwVars, gpsVars,
                   fileVars, posts, drainedTotal, flowAnomalies, ev>>

initRTC ==
    /\ pc = "initRTC"
    /\ \E outcome \in RtcOutcomes :
         IF outcome = "absent"
         THEN /\ rtcInitialized' = FALSE
              /\ SetDiag(serialPrintln(Diag, "RTC not found", now))
         ELSE /\ rtcInitialized' = TRUE
              /\ SetDiag(PrintAll(Diag,
                    IF outcome = "lostPower"
                    THEN <<"RTC lost power, setting time!", "RTC initialized successfully">>
                    ELSE <<"RTC initialized successfully">>, now))
    /\ pc' = "initBMP"
    /\ UNCHANGED <<now, iter, retryCount, bmpFailsLeft, histVars, isrVars, attached,
                   flowRate, clockVars, flowLocals, currentConfig, sdCardAvailable,
                   bmpInitialized, gpsVars, fileVars, posts, drainedTotal,
                   flowAnomalies, ev>>

\* initBMP, lines 150-154: one test of the while condition, and the body when it holds
initBMPRetry ==
    /\ pc = "initBMP"
    /\ IF bmpFailsLeft > 0
       THEN /\ bmpFailsLeft' = bmpFailsLeft - 1
            /\ IF retryCount < BmpMaxRetries
               THEN /\ SetDiag(serialPrintln(Diag, "BMP180 not found, retrying...", now))
                    /\ now' = now + BmpRetryDelayMs
                    /\ retryCount' = retryCount + 1
                    /\ pc' = "initBMP"
               ELSE /\ pc' = "initBMPResult"
                    /\ UNCHANGED <<diagVars, now, retryCount>>
       ELSE /\ pc' = "initBMPResult"
            /\ UNCHANGED <<diagVars, now, retryCount, bmpFailsLeft>>
    /\ UNCHANGED <<iter, histVars, isrVars, attached, flowRate, clockVars, flowLocals,
                   currentConfig, hwVars, gpsVars, fileVars, posts, drainedTotal,
                   flowAnomalies, ev>>

\* mutant: a failed initialisation stops the program (while (1);)
initBMPResultHalts ==
    /\ pc = "initBMPResult"
    /\ IF bmpFailsLeft > 0
       THEN /\ bmpFailsLeft' = bmpFailsLeft - 1
            /\ bmpInitialized' = FALSE
            /\ SetDiag(serialPrintln(Diag, "BMP180 initialization failed", now))
            /\ pc' = "halt"
       ELSE /\ bmpInitialized' = TRUE
            /\ SetDiag(serialPrintln(Diag, "BMP180 initialized successfully", now))
            /\ pc' = "initSD"
            /\ UNCHANGED bmpFailsLeft
    /\ UNCHANGED <<now, iter, retryCount, histVars, isrVars, attached, flowRate,
                   clockVars, flowLocals, currentConfig, sdCardAvailable,
                   rtcInitialized, gpsVars, fileVars, posts, drainedTotal,
                   flowAnomalies, ev>>

\* initBMP, lines 155-161: the last call of bmp.begin() decides
initBMPResult ==
    /\ pc = "initBMPResult"
    /\ IF bmpFailsLeft > 0
       THEN /\ bmpFailsLeft' = bmpFailsLeft - 1
            /\ bmpInitialized' = FALSE
            /\ SetDiag(serialPrintln(Diag, "BMP180 initialization failed", now))
       ELSE /\ bmpInitialized' = TRUE
            /\ SetDiag(serialPrintln(Diag, "BMP180 initialized successfully", now))
            /\ UNCHANGED bmpFailsLeft
    /\ pc' = "initSD"
    /\ UNCHANGED <<now, iter, retryCount, histVars, isrVars, attached, flowRate,
                   clockVars, flowLocals, currentConfig, sdCardAvailable,
                   rtcInitialized, gpsVars, fileVars, posts, drainedTotal,
                   flowAnomalies, ev>>

initSDCard ==
    /\ pc = "initSD"
    /\ \E mounted \in BOOLEAN :
         IF ~mounted
         THEN /\ sdCardAvailable' = FALSE
              /\ SetDiag(serialPrintln(Diag, "SD Card Mount Failed", now))
              /\ UNCHANGED <<currentConfig, configFile>>
         ELSE LET created == configFile = NoFile
                  saved == saveConfig(configFile, currentConfig, TRUE)
                  file == IF created THEN saved.file ELSE configFile
                  loaded == loadConfig(file, currentConfig)
                  msgs == (IF created THEN <<"Creating new config file">> \o saved.msgs
                           ELSE <<>>)
                          \o loaded.msgs \o <<"SD Card initialized successfully">>
              IN  /\ sdCardAvailable' = TRUE
                  /\ configFile' = file
                  /\ currentConfig' = loaded.config
                  /\ SetDiag(PrintAll(Diag, msgs, now))
    /\ pc' = "attach"
    /\ UNCHANGED <<now, iter, retryCount, bmpFailsLeft, histVars, isrVars, attached,
                   flowRate, clockVars, flowLocals, rtcInitialized, bmpInitialized,
                   gpsVars, gpsLog, flowLog, posts, drainedTotal, flowAnomalies, ev>>

\* setup, lines 727-740
SetupEnd ==
    /\ pc = "attach"
    /\ attached' = TRUE
    /\ SetDiag(PrintAll(Diag, <<"AP IP address: %d.%d.%d.%d", "Web server started">>, now))
    /\ pc' = "loop"
    /\ UNCHANGED <<now, iter, retryCount, bmpFailsLeft, histVars, isrVars, flowRate,
                   clockVars, flowLocals, currentConfig, hwVars, gpsVars, fileVars,
                   posts, drainedTotal, flowAnomalies, ev>>


(***************************************************************************)
(* The edge interrupt                                                      *)
(***************************************************************************)
\* mutant: the handler also refreshes the flow rate
pulseCounterUpdatesRate ==
    /\ pc \notin SetupPcs
    /\ attached
    /\ edgesTotal < MaxEdges
    /\ pulseCount' = (pulseCount + 1) % PulseWidth
    /\ flowRate' = FlowRateOf(pulseCount', FlowCheckMs)
    /\ edgesTotal' = edgesTotal + 1
    /\ deliveredSinceZero' = deliveredSinceZero + 1
    /\ UNCHANGED <<pc, now, iter, retryCount, bmpFailsLeft, histVars, attached,
                   clockVars, flowLocals, diagVars, currentConfig, hwVars,
                   gpsVars, fileVars, posts, drainedTotal, flowAnomalies, ev>>

\* pulseCounter: the handler runs when an edge arrives while it is attached
pulseCounter ==
    /\ pc \notin SetupPcs
    /\ attached
    /\ edgesTotal < MaxEdges
    /\ pulseCount' = (pulseCount + 1) % PulseWidth
    /\ edgesTotal' = edgesTotal + 1
    /\ deliveredSinceZero' = deliveredSinceZero + 1
    /\ UNCHANGED <<pc, now, iter, retryCount, bmpFailsLeft, histVars, attached,
                   flowRate, clockVars, flowLocals, diagVars, currentConfig, hwVars,
                   gpsVars, fileVars, posts, drainedTotal, flowAnomalies, ev>>

\* an edge that arrives between detachInterrupt and attachInterrupt runs no handler
EdgeWhileDetached ==
    /\ pc \notin SetupPcs
    /\ ~attached
    /\ edgesTotal < MaxEdges
    /\ edgesTotal' = edgesTotal + 1
    /\ UNCHANGED <<pc, now, iter, retryCount, bmpFailsLeft, histVars, pulseCount,
                   deliveredSinceZero, attached, flowRate, clockVars, flowLocals,
                   diagVars, currentConfig, hwVars, gpsVars, fileVars, posts,
                   drainedTotal, flowAnomalies, ev>>

(***************************************************************************)
(* loop(): server.handleClient()                                           *)
(***************************************************************************)
\* no request is pending
ServeNothing ==
    /\ pc = "loop"
    /\ iter < MaxIter
    /\ iter' = iter + 1
    /\ ev' = NoEval
    /\ pc' = "gps"
    /\ UNCHANGED <<now, retryCount, bmpFailsLeft, histVars, isrVars, attached,
                   flowRate, clockVars, flowLocals, diagVars, currentConfig, hwVars,
                   gpsVars, fileVars, posts, drainedTotal, flowAnomalies>>

\* the fields handleConfig leaves in currentConfig for the request's arguments
ApplyConfig(config, sensorType, pressureArg, flowArg, ssid, password, deviceName) ==
    [ssid |-> ssid,
     password |-> IF password # "" THEN password ELSE config.password,
     deviceName |-> deviceName,
     currentSensor |-> sensorType,
     pressureThreshold |-> pressureArg,
     flowThreshold |-> flowArg]

\* a POST /config request
handleConfig ==
    /\ pc = "loop"
    /\ iter < MaxIter
    /\ posts < MaxPosts
    /\ \E sensorType \in SensorArgs, pressureArg \in ThresholdArgs, flowArg \in ThresholdArgs :
         LET config == ApplyConfig(currentConfig, sensorType, pressureArg, flowArg,
                                   currentConfig.ssid, "", currentConfig.deviceName)
             saved == saveConfig(configFile, config, sdCardAvailable)
         IN  /\ currentConfig' = config
             /\ configFile' = saved.file
             /\ SetDiag(PrintAll(Diag, saved.msgs \o <<"AP IP address: %d.%d.%d.%d">>, now))
    /\ posts' = posts + 1
    /\ iter' = iter + 1
    /\ ev' = NoEval
    /\ pc' = "gps"
    /\ UNCHANGED <<now, retryCount, bmpFailsLeft, histVars, isrVars, attached,
                   flowRate, clockVars, flowLocals, hwVars, gpsVars, gpsLog, flowLog,
                   drainedTotal, flowAnomalies>>

\* the response of handlePressure to GET /pressure: its status code and the
\* keys of the JSON object it sends (json is sent as constructed, empty);
\* flowRate is never INFINITY, the elapsed time being floored at 100 ms
handlePressure(config, initialized) ==
    IF config.currentSensor = "BMP" /\ ~initialized
    THEN [code |-> 500, keys |-> {"error"}]
    ELSE [code |-> 200, keys |-> {}]

(***************************************************************************)
(* loop(): processGPS()                                                    *)
(***************************************************************************)
\* the receiver's bytes are read; a fix, once valid, stays valid
processGPS ==
    /\ pc = "gps"
    /\ \E chars \in {gpsChars, GpsMinChars}, valid \in BOOLEAN :
         /\ gpsValid => valid
         /\ valid => chars >= GpsMinChars
         /\ gpsChars' = chars
         /\ gpsValid' = valid
         /\ IF now > GpsDetectMs /\ chars < GpsMinChars
            THEN SetDiag(serialPrintln(Diag, "No GPS detected", now))
            ELSE UNCHANGED diagVars
    /\ pc' = "sensor"
    /\ UNCHANGED <<now, iter, retryCount, bmpFailsLeft, histVars, isrVars, attached,
                   flowRate, clockVars, flowLocals, currentConfig, hwVars, fileVars,
                   posts, drainedTotal, flowAnomalies, ev>>


(***************************************************************************)
(* loop(): the pressure path                                               *)
(***************************************************************************)
\* whether checkPressureAndLog, given this reading, reaches SD.open in logGPSData
PressureLogOpens(rawPressure) ==
    /\ bmpInitialized
    /\ rawPressure > 0
    /\ LET h == addPressureReading(pressureHistory, rawPressure)
       IN  PressureExceeds(rawPressure,
               PressureThresholdLevel(calculateAveragePressure(h), currentConfig))
    /\ sdCardAvailable
    /\ gpsValid

\* mutant: the average is taken before the reading is pushed
checkPressureAndLogEvalFirst(rawPressure, openOk) ==
    IF ~bmpInitialized
    THEN /\ SetDiag(serialPrintln(Diag, "BMP sensor not initialized", now))
         /\ UNCHANGED <<pressureHistory, pressurePushed, gpsLog, ev>>
    ELSE IF rawPressure <= 0
    THEN /\ SetDiag(serialPrintln(Diag, "Invalid pressure reading", now))
         /\ UNCHANGED <<pressureHistory, pressurePushed, gpsLog, ev>>
    ELSE LET pressure == rawPressure
             h == addPressureReading(pressureHistory, pressure)
             averagePressure == calculateAveragePressure(pressureHistory)
             thresholdLevel == PressureThresholdLevel(averagePressure, currentConfig)
             exceeded == PressureExceeds(pressure, thresholdLevel)
             d1 == IF exceeded
                   THEN serialPrintln(Diag,
                            "Pressure threshold exceeded: %.2f hPa (Avg: %.2f, Threshold: %.2f)", now)
                   ELSE Diag
             r == IF exceeded THEN logGPSData(gpsLog, d1, pressure, openOk, now)
                  ELSE [log |-> gpsLog, diag |-> d1]
         IN  /\ pressureHistory' = h
             /\ pressurePushed' = Append(pressurePushed, pressure)
             /\ gpsLog' = r.log
             /\ SetDiag(r.diag)
             /\ ev' = [kind |-> "pressure", live |-> pressure,
                       average |-> averagePressure, threshold |-> thresholdLevel,
                       pct |-> currentConfig.pressureThreshold,
                       anomalous |-> exceeded, gate |-> exceeded,
                       fix |-> gpsValid, card |-> sdCardAvailable, openOk |-> openOk,
                       drained |-> FALSE, at |-> now,
                       before |-> Len(gpsLog), after |-> Len(r.log),
                       loggerMsg |-> IF r.diag = d1 THEN "none"
                                     ELSE r.diag.buf[d1.idx].message]

\* mutant: a reading that is not positive is reported but pushed all the same
checkPressureAndLogPushesInvalid(rawPressure, openOk) ==
    IF ~bmpInitialized
    THEN /\ SetDiag(serialPrintln(Diag, "BMP sensor not initialized", now))
         /\ UNCHANGED <<pressureHistory, pressurePushed, gpsLog, ev>>
    ELSE IF rawPressure <= 0
    THEN /\ SetDiag(serialPrintln(Diag, "Invalid pressure reading", now))
         /\ pressureHistory' = addPressureReading(pressureHistory, rawPressure)
         /\ pressurePushed' = Append(pressurePushed, rawPressure)
         /\ UNCHANGED <<gpsLog, ev>>
    ELSE LET pressure == rawPressure
             h == addPressureReading(pressureHistory, pressure)
             averagePressure == calculateAveragePressure(h)
             thresholdLevel == PressureThresholdLevel(averagePressure, currentConfig)
             exceeded == PressureExceeds(pressure, thresholdLevel)
             d1 == IF exceeded
                   THEN serialPrintln(Diag,
                            "Pressure threshold exceeded: %.2f hPa (Avg: %.2f, Threshold: %.2f)", now)
                   ELSE Diag
             r == IF exceeded THEN logGPSData(gpsLog, d1, pressure, openOk, now)
                  ELSE [log |-> gpsLog, diag |-> d1]
         IN  /\ pressureHistory' = h
             /\ pressurePushed' = Append(pressurePushed, pressure)
             /\ gpsLog' = r.log
             /\ SetDiag(r.diag)
             /\ ev' = [kind |-> "pressure", live |-> pressure,
                       average |-> averagePressure, threshold |-> thresholdLevel,
                       pct |-> currentConfig.pressureThreshold,
                       anomalous |-> exceeded, gate |-> exceeded,
                       fix |-> gpsValid, card |-> sdCardAvailable, openOk |-> openOk,
                       drained |-> FALSE, at |-> now,
                       before |-> Len(gpsLog), after |-> Len(r.log),
                       loggerMsg |-> IF r.diag = d1 THEN "none"
                                     ELSE r.diag.buf[d1.idx].message]

\* checkPressureAndLog, for the reading bmp.readPressure() returns
checkPressureAndLog(rawPressure, openOk) ==
    IF ~bmpInitialized
    THEN /\ SetDiag(serialPrintln(Diag, "BMP sensor not initialized", now))
         /\ UNCHANGED <<pressureHistory, pressurePushed, gpsLog, ev>>
    ELSE IF rawPressure <= 0
    THEN /\ SetDiag(serialPrintln(Diag, "Invalid pressure reading", now))
         /\ UNCHANGED <<pressureHistory, pressurePushed, gpsLog, ev>>
    ELSE LET pressure == rawPressure
             h == addPressureReading(pressureHistory, pressure)
             averagePressure == calculateAveragePressure(h)
             thresholdLevel == PressureThresholdLevel(averagePressure, currentConfig)
             exceeded == PressureExceeds(pressure, thresholdLevel)
             d1 == IF exceeded
                   THEN serialPrintln(Diag,
                            "Pressure threshold exceeded: %.2f hPa (Avg: %.2f, Threshold: %.2f)", now)
                   ELSE Diag
             r == IF exceeded THEN logGPSData(gpsLog, d1, pressure, openOk, now)
                  ELSE [log |-> gpsLog, diag |-> d1]
         IN  /\ pressureHistory' = h
             /\ pressurePushed' = Append(pressurePushed, pressure)
             /\ gpsLog' = r.log
             /\ SetDiag(r.diag)
             /\ ev' = [kind |-> "pressure", live |-> pressure,
                       average |-> averagePressure, threshold |-> thresholdLevel,
                       pct |-> currentConfig.pressureThreshold,
                       anomalous |-> exceeded, gate |-> exceeded,
                       fix |-> gpsValid, card |-> sdCardAvailable, openOk |-> openOk,
                       drained |-> FALSE, at |-> now,
                       before |-> Len(gpsLog), after |-> Len(r.log),
                       loggerMsg |-> IF r.diag = d1 THEN "none"
                                     ELSE r.diag.buf[d1.idx].message]

\* loop, lines 824-825
LoopPressure ==
    /\ pc = "sensor"
    /\ currentConfig.currentSensor = "BMP"
    /\ IF bmpInitialized
       THEN \E rawPressure \in PressureReadings, openOk \in BOOLEAN :
               /\ ~openOk => PressureLogOpens(rawPressure)
               /\ checkPressureAndLog(rawPressure, openOk)
       ELSE UNCHANGED <<pressureHistory, pressurePushed, gpsLog, diagVars, ev>>
    /\ pc' = "status"
    /\ UNCHANGED <<now, iter, retryCount, bmpFailsLeft, flowHistory, flowPushed,
                   isrVars, attached, flowRate, clockVars, flowLocals, currentConfig,
                   hwVars, gpsVars, configFile, flowLog, posts, drainedTotal,
                   flowAnomalies>>

(***************************************************************************)
(* loop(): the flow path, checkFlowAndLog in the steps the interrupt can   *)
(* fall between                                                            *)
(***************************************************************************)
\* mutant: the call goes on when no time has elapsed
FlowBeginNoZeroGuard ==
    /\ pc = "sensor"
    /\ currentConfig.currentSensor # "BMP"
    /\ currentTime' = now
    /\ timeDiff' = now - lastCheckTime
    /\ IF timeDiff' >= FlowCheckMs
       THEN /\ attached' = FALSE
            /\ ev' = [ev EXCEPT !.drained = TRUE]
            /\ pc' = "flowRead"
       ELSE /\ pc' = "flowEval"
            /\ UNCHANGED <<attached, ev>>
    /\ UNCHANGED <<now, iter, retryCount, bmpFailsLeft, histVars, isrVars, flowRate,
                   clockVars, drainedCount, diagVars, currentConfig, hwVars, gpsVars,
                   fileVars, posts, drainedTotal, flowAnomalies>>

\* lines 668-677: the elapsed time, the two guards and detachInterrupt
FlowBegin ==
    /\ pc = "sensor"
    /\ currentConfig.currentSensor # "BMP"
    /\ currentTime' = now
    /\ timeDiff' = now - lastCheckTime
    /\ IF timeDiff' = 0
       THEN /\ pc' = "status"
            /\ UNCHANGED <<attached, ev>>
       ELSE IF timeDiff' >= FlowCheckMs
       THEN /\ attached' = FALSE
            /\ ev' = [ev EXCEPT !.drained = TRUE]
            /\ pc' = "flowRead"
       ELSE /\ pc' = "flowEval"
            /\ UNCHANGED <<attached, ev>>
    /\ UNCHANGED <<now, iter, retryCount, bmpFailsLeft, histVars, isrVars, flowRate,
                   clockVars, drainedCount, diagVars, currentConfig, hwVars, gpsVars,
                   fileVars, posts, drainedTotal, flowAnomalies>>

\* mutant: the rate of a drain is added to the rate of the drain before
FlowReadAccumulates ==
    /\ pc = "flowRead"
    /\ flowRate' = flowRate + FlowRateOf(pulseCount, timeDiff)
    /\ drainedCount' = pulseCount
    /\ drainedTotal' = drainedTotal + pulseCount
    /\ pc' = "flowZero"
    /\ UNCHANGED <<now, iter, retryCount, bmpFailsLeft, histVars, isrVars, attached,
                   clockVars, currentTime, timeDiff, diagVars, currentConfig, hwVars,
                   gpsVars, fileVars, posts, flowAnomalies, ev>>

\* line 678: pulseCount is read and the rate computed
FlowRead ==
    /\ pc = "flowRead"
    /\ flowRate' = FlowRateOf(pulseCount, timeDiff)
    /\ drainedCount' = pulseCount
    /\ drainedTotal' = drainedTotal + pulseCount
    /\ pc' = "flowZero"
    /\ UNCHANGED <<now, iter, retryCount, bmpFailsLeft, histVars, isrVars, attached,
                   clockVars, currentTime, timeDiff, diagVars, currentConfig, hwVars,
                   gpsVars, fileVars, posts, flowAnomalies, ev>>

\* mutant: the drain does not zero the counter
FlowZeroSkipped ==
    /\ pc = "flowZero"
    /\ deliveredSinceZero' = 0
    /\ pc' = "flowAttach"
    /\ UNCHANGED <<now, iter, retryCount, bmpFailsLeft, histVars, pulseCount, edgesTotal,
                   attached, flowRate, clockVars, flowLocals, diagVars, currentConfig,
                   hwVars, gpsVars, fileVars, posts, drainedTotal, flowAnomalies, ev>>

\* line 679: pulseCount = 0
FlowZero ==
    /\ pc = "flowZero"
    /\ pulseCount' = 0
    /\ deliveredSinceZero' = 0
    /\ pc' = "flowAttach"
    /\ UNCHANGED <<now, iter, retryCount, bmpFailsLeft, histVars, edgesTotal, attached,
                   flowRate, clockVars, flowLocals, diagVars, currentConfig, hwVars,
                   gpsVars, fileVars, posts, drainedTotal, flowAnomalies, ev>>

\* mutant: the last-action timestamp advances by the period, not to the current time
FlowAttachFixedStep ==
    /\ pc = "flowAttach"
    /\ lastCheckTime' = lastCheckTime + FlowCheckMs
    /\ attached' = TRUE
    /\ pc' = "flowEval"
    /\ UNCHANGED <<now, iter, retryCount, bmpFailsLeft, histVars, isrVars, flowRate,
                   lastLogTime, lastStatusUpdate, flowLocals, diagVars, currentConfig,
                   hwVars, gpsVars, fileVars, posts, drainedTotal, flowAnomalies, ev>>

\* lines 680-681: the last-action timestamp and attachInterrupt
FlowAttach ==
    /\ pc = "flowAttach"
    /\ lastCheckTime' = currentTime
    /\ attached' = TRUE
    /\ pc' = "flowEval"
    /\ UNCHANGED <<now, iter, retryCount, bmpFailsLeft, histVars, isrVars, flowRate,
                   lastLogTime, lastStatusUpdate, flowLocals, diagVars, currentConfig,
                   hwVars, gpsVars, fileVars, posts, drainedTotal, flowAnomalies, ev>>

\* whether lines 683-695, run now, reach SD.open in logGPSDataFlow
FlowLogOpens ==
    /\ LET h == IF ev.drained THEN addFlowReading(flowHistory, flowRate) ELSE flowHistory
       IN  FlowExceeds(flowRate, FlowThresholdLevel(calculateAverageFlow(h), currentConfig))
    /\ FlowGate(now, lastLogTime)
    /\ sdCardAvailable
    /\ gpsValid

\* mutant: the last-write timestamp is set only when a record was written
FlowEvalStampsOnWrite ==
    /\ pc = "flowEval"
    /\ \E openOk \in BOOLEAN :
         /\ ~openOk => FlowLogOpens
         /\ LET h == IF ev.drained THEN addFlowReading(flowHistory, flowRate)
                     ELSE flowHistory
                averageFlow == calculateAverageFlow(h)
                threshold == FlowThresholdLevel(averageFlow, currentConfig)
                exceeded == FlowExceeds(flowRate, threshold)
                passed == exceeded /\ FlowGate(now, lastLogTime)
                d1 == IF passed
                      THEN serialPrintln(Diag, "Flow rate: %.2f L/min (Avg: %.2f/T: %.2f)", now)
                      ELSE Diag
                r == IF passed THEN logGPSDataFlow(flowLog, d1, flowRate, openOk, now)
                     ELSE [log |-> flowLog, diag |-> d1]
            IN  /\ flowHistory' = h
                /\ flowPushed' = IF ev.drained THEN Append(flowPushed, flowRate)
                                 ELSE flowPushed
                /\ lastLogTime' = IF Len(r.log) > Len(flowLog) THEN now ELSE lastLogTime
                /\ flowLog' = r.log
                /\ SetDiag(r.diag)
                /\ flowAnomalies' = IF exceeded THEN flowAnomalies + 1 ELSE flowAnomalies
                /\ ev' = [kind |-> "flow", live |-> flowRate,
                          average |-> averageFlow, threshold |-> threshold,
                          pct |-> currentConfig.flowThreshold,
                          anomalous |-> exceeded, gate |-> passed,
                          fix |-> gpsValid, card |-> sdCardAvailable, openOk |-> openOk,
                          drained |-> ev.drained, at |-> now,
                          before |-> Len(flowLog), after |-> Len(r.log),
                          loggerMsg |-> IF r.diag = d1 THEN "none"
                                        ELSE r.diag.buf[d1.idx].message]
    /\ pc' = "status"
    /\ UNCHANGED <<now, iter, retryCount, bmpFailsLeft, pressureHistory, pressurePushed,
                   isrVars, attached, flowRate, lastCheckTime, lastStatusUpdate,
                   flowLocals, currentConfig, hwVars, gpsVars, configFile, gpsLog,
                   posts, drainedTotal>>

\* lines 683-695: the push (after a drain), the evaluation, the gate and the log
FlowEval ==
    /\ pc = "flowEval"
    /\ \E openOk \in BOOLEAN :
         /\ ~openOk => FlowLogOpens
         /\ LET h == IF ev.drained THEN addFlowReading(flowHistory, flowRate)
                     ELSE flowHistory
                averageFlow == calculateAverageFlow(h)
                threshold == FlowThresholdLevel(averageFlow, currentConfig)
                exceeded == FlowExceeds(flowRate, threshold)
                passed == exceeded /\ FlowGate(now, lastLogTime)
                d1 == IF passed
                      THEN serialPrintln(Diag, "Flow rate: %.2f L/min (Avg: %.2f/T: %.2f)", now)
                      ELSE Diag
                r == IF passed THEN logGPSDataFlow(flowLog, d1, flowRate, openOk, now)
                     ELSE [log |-> flowLog, diag |-> d1]
            IN  /\ flowHistory' = h
                /\ flowPushed' = IF ev.drained THEN Append(flowPushed, flowRate)
                                 ELSE flowPushed
                /\ lastLogTime' = IF passed THEN now ELSE lastLogTime
                /\ flowLog' = r.log
                /\ SetDiag(r.diag)
                /\ flowAnomalies' = IF exceeded THEN flowAnomalies + 1 ELSE flowAnomalies
                /\ ev' = [kind |-> "flow", live |-> flowRate,
                          average |-> averageFlow, threshold |-> threshold,
                          pct |-> currentConfig.flowThreshold,
                          anomalous |-> exceeded, gate |-> passed,
                          fix |-> gpsValid, card |-> sdCardAvailable, openOk |-> openOk,
                          drained |-> ev.drained, at |-> now,
                          before |-> Len(flowLog), after |-> Len(r.log),
                          loggerMsg |-> IF r.diag = d1 THEN "none"
                                        ELSE r.diag.buf[d1.idx].message]
    /\ pc' = "status"
    /\ UNCHANGED <<now, iter, retryCount, bmpFailsLeft, pressureHistory, pressurePushed,
                   isrVars, attached, flowRate, lastCheckTime, lastStatusUpdate,
                   flowLocals, currentConfig, hwVars, gpsVars, configFile, gpsLog,
                   posts, drainedTotal>>

(***************************************************************************)
(* loop(): the periodic status line and delay(100)                         *)
(***************************************************************************)
\* lines 831-855; the iteration takes d ms in all
LoopEnd ==
    /\ pc = "status"
    /\ LET due == now - lastStatusUpdate >= STATUS_UPDATE_INTERVAL
       IN  /\ lastStatusUpdate' = IF due THEN now ELSE lastStatusUpdate
           /\ IF due /\ bmpInitialized
              THEN SetDiag(serialPrintln(Diag, "Status - Temp: %.1fC, Pressure: %.1f hPa", now))
              ELSE UNCHANGED diagVars
    /\ \E d \in Delays : now' = now + d
    /\ pc' = "loop"
    /\ UNCHANGED <<iter, retryCount, bmpFailsLeft, histVars, isrVars, attached,
                   flowRate, lastLogTime, lastCheckTime, flowLocals, currentConfig,
                   hwVars, gpsVars, fileVars, posts, drainedTotal, flowAnomalies, ev>>

Next ==
    \/ SetupBegin
    \/ initRTC
    \/ initBMPRetry
    \/ initBMPResult
    \/ initSDCard
    \/ SetupEnd
    \/ pulseCounter
    \/ EdgeWhileDetached
    \/ ServeNothing
    \/ handleConfig
    \/ processGPS
    \/ LoopPressure
    \/ FlowBegin
    \/ FlowRead
    \/ FlowZero
    \/ FlowAttach
    \/ FlowEval
    \/ LoopEnd

Spec == Init /\ [][Next]_vars


\* the device left to itself: no request reaches the web server
NextCore ==
    \/ SetupBegin
    \/ initRTC
    \/ initBMPRetry
    \/ initBMPResult
    \/ initSDCard
    \/ SetupEnd
    \/ pulseCounter
    \/ EdgeWhileDetached
    \/ ServeNothing
    \/ processGPS
    \/ LoopPressure
    \/ FlowBegin
    \/ FlowRead
    \/ FlowZero
    \/ FlowAttach
    \/ FlowEval
    \/ LoopEnd

SpecCore == Init /\ [][NextCore]_vars

\* the steps of setup() and loop(); the processor runs them one after the
\* other without waiting for anything but delay(), which returns
MainProgram ==
    \/ SetupBegin
    \/ initRTC
    \/ initBMPRetry
    \/ initBMPResult
    \/ initSDCard
    \/ SetupEnd
    \/ ServeNothing
    \/ processGPS
    \/ LoopPressure
    \/ FlowBegin
    \/ FlowRead
    \/ FlowZero
    \/ FlowAttach
    \/ FlowEval
    \/ LoopEnd

\* the device left to itself, the main program always taking its next step
SpecLive == Init /\ [][NextCore]_vars /\ WF_vars(MainProgram)

(***************************************************************************)
(* The history buffers on their own: sequences of pushes longer than the   *)
(* capacity, into the buffer of the chosen mode.                           *)
(***************************************************************************)
InitBuf ==
    /\ pc = "buffers"
    /\ now = 0
    /\ iter = 0
    /\ retryCount = 0
    /\ bmpFailsLeft = 0
    /\ pressureHistory = EmptyHistory
    /\ flowHistory = EmptyHistory
    /\ pulseCount = 0
    /\ attached = FALSE
    /\ flowRate = 0
    /\ lastLogTime = InitLastLogTime
    /\ lastCheckTime = 0
    /\ lastStatusUpdate = 0
    /\ currentTime = 0
    /\ timeDiff = 0
    /\ serialBuffer = [i \in SerialSlots |-> [timestamp |-> 0, message |-> ""]]
    /\ serialBufferIndex = 0
    /\ totalMessages = 0
    /\ printed = <<>>
    /\ currentConfig \in {[DefaultConfig EXCEPT !.currentSensor = m] : m \in SensorArgs}
    /\ sdCardAvailable = FALSE
    /\ rtcInitialized = FALSE
    /\ bmpInitialized = FALSE
    /\ gpsChars = 0
    /\ gpsValid = FALSE
    /\ configFile = NoFile
    /\ gpsLog = <<>>
    /\ flowLog = <<>>
    /\ posts = 0
    /\ edgesTotal = 0
    /\ drainedTotal = 0
    /\ deliveredSinceZero = 0
    /\ drainedCount = 0
    /\ pressurePushed = <<>>
    /\ flowPushed = <<>>
    /\ flowAnomalies = 0
    /\ ev = NoEval

bufFrame == <<pc, now, iter, retryCount, bmpFailsLeft, isrVars, attached, flowRate,
              clockVars, flowLocals, diagVars, currentConfig, hwVars, gpsVars,
              fileVars, posts, drainedTotal, flowAnomalies, ev>>

PushPressure ==
    /\ pc = "buffers"
    /\ currentConfig.currentSensor = "BMP"
    /\ Len(pressurePushed) < MaxPushes
    /\ \E v \in BufValues :
         /\ pressureHistory' = addPressureReading(pressureHistory, v)
         /\ pressurePushed' = Append(pressurePushed, v)
    /\ UNCHANGED <<flowHistory, flowPushed, bufFrame>>

PushFlow ==
    /\ pc = "buffers"
    /\ currentConfig.currentSensor # "BMP"
    /\ Len(flowPushed) < MaxPushes
    /\ \E v \in BufValues :
         /\ flowHistory' = addFlowReading(flowHistory, v)
         /\ flowPushed' = Append(flowPushed, v)
    /\ UNCHANGED <<pressureHistory, pressurePushed, bufFrame>>

NextBuf == PushPressure \/ PushFlow

SpecBuf == InitBuf /\ [][NextBuf]_vars

(***************************************************************************)
(* The configuration on its own: a POST /config on a running device with a *)
(* mounted card, then a restart, which loads /config.txt into a fresh      *)
(* Config holding the defaults.                                            *)
(***************************************************************************)
InitCfg ==
    /\ pc = "config"
    /\ now = 0
    /\ iter = 0
    /\ retryCount = 0
    /\ bmpFailsLeft = 0
    /\ pressureHistory = EmptyHistory
    /\ flowHistory = EmptyHistory
    /\ pulseCount = 0
    /\ attached = TRUE
    /\ flowRate = 0
    /\ lastLogTime = InitLastLogTime
    /\ lastCheckTime = 0
    /\ lastStatusUpdate = 0
    /\ currentTime = 0
    /\ timeDiff = 0
    /\ serialBuffer = [i \in SerialSlots |-> [timestamp |-> 0, message |-> ""]]
    /\ serialBufferIndex = 0
    /\ totalMessages = 0
    /\ printed = <<>>
    /\ currentConfig \in {loadConfig(f, DefaultConfig).config : f \in {ConfigLines(DefaultConfig), FlowFile}}
    /\ sdCardAvailable = TRUE
    /\ rtcInitialized = FALSE
    /\ bmpInitialized = FALSE
    /\ gpsChars = 0
    /\ gpsValid = FALSE
    /\ configFile = ConfigLines(currentConfig)
    /\ gpsLog = <<>>
    /\ flowLog = <<>>
    /\ posts = 0
    /\ edgesTotal = 0
    /\ drainedTotal = 0
    /\ deliveredSinceZero = 0
    /\ drainedCount = 0
    /\ pressurePushed = <<>>
    /\ flowPushed = <<>>
    /\ flowAnomalies = 0
    /\ ev = NoEval

cfgFrame == <<now, iter, retryCount, bmpFailsLeft, histVars, isrVars, attached,
              flowRate, clockVars, flowLocals, hwVars, gpsVars, gpsLog, flowLog,
              drainedTotal, flowAnomalies, ev>>

\* handleConfig for a POST with any of the arguments
ConfigRequest ==
    /\ pc = "config"
    /\ \E sensorType \in CfgSensorArgs, pressureArg \in CfgThresholdArgs,
          flowArg \in CfgThresholdArgs, ssid \in CfgSsidArgs, password \in CfgPasswordArgs :
         LET config == ApplyConfig(currentConfig, sensorType, pressureArg, flowArg,
                                   ssid, password, currentConfig.deviceName)
             saved == saveConfig(configFile, config, sdCardAvailable)
         IN  /\ currentConfig' = config
             /\ configFile' = saved.file
             /\ SetDiag(PrintAll(Diag, saved.msgs \o <<"AP IP address: %d.%d.%d.%d">>, now))
    /\ posts' = posts + 1
    /\ pc' = "saved"
    /\ UNCHANGED cfgFrame

\* restart: initSDCard finds /config.txt and loadConfig fills a fresh Config
LoadFresh ==
    /\ pc = "saved"
    /\ LET loaded == loadConfig(configFile, DefaultConfig)
       IN  /\ currentConfig' = loaded.config
           /\ SetDiag(PrintAll(Diag, loaded.msgs \o <<"SD Card initialized successfully">>, now))
    /\ pc' = "loaded"
    /\ UNCHANGED <<configFile, posts, cfgFrame>>

NextCfg == ConfigRequest \/ LoadFresh

SpecCfg == InitCfg /\ [][NextCfg]_vars

(***************************************************************************)
(* The load on its own: at boot initSDCard mounts a card that holds any of *)
(* the persisted files and loadConfig reads it into the defaults.          *)
(***************************************************************************)
InitLoad ==
    /\ pc = "stored"
    /\ now = 0
    /\ iter = 0
    /\ retryCount = 0
    /\ bmpFailsLeft = 0
    /\ pressureHistory = EmptyHistory
    /\ flowHistory = EmptyHistory
    /\ pulseCount = 0
    /\ attached = FALSE
    /\ flowRate = 0
    /\ lastLogTime = InitLastLogTime
    /\ lastCheckTime = 0
    /\ lastStatusUpdate = 0
    /\ currentTime = 0
    /\ timeDiff = 0
    /\ serialBuffer = [i \in SerialSlots |-> [timestamp |-> 0, message |-> ""]]
    /\ serialBufferIndex = 0
    /\ totalMessages = 0
    /\ printed = <<>>
    /\ currentConfig = DefaultConfig
    /\ sdCardAvailable = FALSE
    /\ rtcInitialized = FALSE
    /\ bmpInitialized = FALSE
    /\ gpsChars = 0
    /\ gpsValid = FALSE
    /\ configFile \in PersistedFiles
    /\ gpsLog = <<>>
    /\ flowLog = <<>>
    /\ posts = 0
    /\ edgesTotal = 0
    /\ drainedTotal = 0
    /\ deliveredSinceZero = 0
    /\ drainedCount = 0
    /\ pressurePushed = <<>>
    /\ flowPushed = <<>>
    /\ flowAnomalies = 0
    /\ ev = NoEval

\* initSDCard with the card mounted and /config.txt present
LoadPersisted ==
    /\ pc = "stored"
    /\ LET loaded == loadConfig(configFile, currentConfig)
       IN  /\ currentConfig' = loaded.config
           /\ SetDiag(PrintAll(Diag, loaded.msgs \o <<"SD Card initialized successfully">>, now))
    /\ sdCardAvailable' = TRUE
    /\ pc' = "loaded"
    /\ UNCHANGED <<now, iter, retryCount, bmpFailsLeft, histVars, isrVars, attached,
                   flowRate, clockVars, flowLocals, rtcInitialized, bmpInitialized,
                   gpsVars, fileVars, posts, drainedTotal, flowAnomalies, ev>>

NextLoad == LoadPersisted

SpecLoad == InitLoad /\ [][NextLoad]_vars

(***************************************************************************)
(* One call of checkFlowAndLog on its own: the call is entered in flow     *)
(* mode with any elapsed time since the last drain, zero included, any     *)
(* count in the pulse counter and any of the earlier drains behind it.     *)
(***************************************************************************)
\* millis() - lastCheckTime at the call
FlowElapsed == {0, MinElapsedMs, FlowCheckMs - 1, FlowCheckMs, 3 * FlowCheckMs}

\* the rates pushed by the drains before the call
FlowPriors ==
    {<<>>, <<0>>, <<FlowRateOf(1, FlowCheckMs)>>, <<FlowRateOf(1, FlowCheckMs), 0>>}

RECURSIVE PushAll(_, _)
\* addFlowReading for each rate of s in turn
PushAll(h, s) == IF s = <<>> THEN h ELSE PushAll(addFlowReading(h, Head(s)), Tail(s))

InitFlow ==
    /\ pc = "sensor"
    /\ iter = 1
    /\ retryCount = 0
    /\ bmpFailsLeft = 0
    /\ pressureHistory = EmptyHistory
    /\ pressurePushed = <<>>
    /\ flowPushed \in FlowPriors
    /\ flowHistory = PushAll(EmptyHistory, flowPushed)
    /\ flowRate = IF flowPushed = <<>> THEN 0 ELSE flowPushed[Len(flowPushed)]
    /\ lastCheckTime = IF flowPushed = <<>> THEN 0 ELSE SetupDelayMs
    /\ \E elapsed \in FlowElapsed : now = lastCheckTime + elapsed
    /\ pulseCount \in 0 .. MaxEdges
    /\ edgesTotal = pulseCount
    /\ deliveredSinceZero = pulseCount
    /\ drainedTotal = 0
    /\ drainedCount = 0
    /\ attached = TRUE
    /\ lastLogTime = InitLastLogTime
    /\ lastStatusUpdate = 0
    /\ currentTime = 0
    /\ timeDiff = 0
    /\ serialBuffer = [i \in SerialSlots |-> [timestamp |-> 0, message |-> ""]]
    /\ serialBufferIndex = 0
    /\ totalMessages = 0
    /\ printed = <<>>
    /\ currentConfig = [DefaultConfig EXCEPT !.currentSensor = "YF401"]
    /\ sdCardAvailable \in BOOLEAN
    /\ rtcInitialized = TRUE
    /\ bmpInitialized = FALSE
    /\ gpsChars = GpsMinChars
    /\ gpsValid \in BOOLEAN
    /\ configFile = NoFile
    /\ gpsLog = <<>>
    /\ flowLog = <<>>
    /\ posts = 0
    /\ flowAnomalies = 0
    /\ ev = NoEval

NextFlow ==
    \/ FlowBegin
    \/ FlowRead
    \/ FlowZero
    \/ FlowAttach
    \/ FlowEval
    \/ pulseCounter
    \/ EdgeWhileDetached

SpecFlow == InitFlow /\ [][NextFlow]_vars

(***************************************************************************)
(* The diagnostic ring buffer on its own: more calls of serialPrintln than *)
(* the buffer has slots, numbered so that every record is distinct, while  *)
(* the clock advances.                                                     *)
(***************************************************************************)
InitDiag ==
    /\ pc = "diag"
    /\ now = 0
    /\ iter = 0
    /\ retryCount = 0
    /\ bmpFailsLeft = 0
    /\ pressureHistory = EmptyHistory
    /\ flowHistory = EmptyHistory
    /\ pulseCount = 0
    /\ attached = FALSE
    /\ flowRate = 0
    /\ lastLogTime = InitLastLogTime
    /\ lastCheckTime = 0
    /\ lastStatusUpdate = 0
    /\ currentTime = 0
    /\ timeDiff = 0
    /\ serialBuffer = [i \in SerialSlots |-> [timestamp |-> 0, message |-> ""]]
    /\ serialBufferIndex = 0
    /\ totalMessages = 0
    /\ printed = <<>>
    /\ currentConfig = DefaultConfig
    /\ sdCardAvailable = FALSE
    /\ rtcInitialized = FALSE
    /\ bmpInitialized = FALSE
    /\ gpsChars = 0
    /\ gpsValid = FALSE
    /\ configFile = NoFile
    /\ gpsLog = <<>>
    /\ flowLog = <<>>
    /\ posts = 0
    /\ edgesTotal = 0
    /\ drainedTotal = 0
    /\ deliveredSinceZero = 0
    /\ drainedCount = 0
    /\ pressurePushed = <<>>
    /\ flowPushed = <<>>
    /\ flowAnomalies = 0
    /\ ev = NoEval

diagFrame == <<pc, iter, retryCount, bmpFailsLeft, histVars, isrVars, attached,
               flowRate, clockVars, flowLocals, currentConfig, hwVars, gpsVars,
               fileVars, posts, drainedTotal, flowAnomalies, ev>>

\* one call of serialPrintln; the message is the number of the call
RecordMessage ==
    /\ pc = "diag"
    /\ Len(printed) < MaxRecords
    /\ SetDiag(serialPrintln(Diag, ToString(Len(printed) + 1), now))
    /\ UNCHANGED <<now, diagFrame>>

\* millis() advances between two calls
ClockTick ==
    /\ pc = "diag"
    /\ now < MaxTicks
    /\ now' = now + 1
    /\ UNCHANGED <<diagVars, diagFrame>>

NextDiag == RecordMessage \/ ClockTick

SpecDiag == InitDiag /\ [][NextDiag]_vars


(***************************************************************************)
(* Properties                                                              *)
(***************************************************************************)

\* C1: no pulse is lost or double-counted: between two iterations every edge
\* that has occurred is either in the count read by one drain or still in
\* pulseCount for the next one, exactly once.
C1_NoPulseLost ==
    pc = "loop" => edgesTotal = drainedTotal + pulseCount

\* C2: the value a drain reads equals the number of edges delivered to the
\* handler since the previous drain zeroed the counter (fewer than 2^16).
C2_DrainReadsDelivered ==
    /\ deliveredSinceZero < PulseWidth
    /\ pc = "flowZero" => drainedCount = deliveredSinceZero
    /\ (attached /\ pc # "flowZero") => pulseCount = deliveredSinceZero

C2_Witness ==
    /\ pc = "flowZero"
    /\ drainedCount = 2
    /\ Len(flowPushed) >= 1

\* C3: after N pushes into a history buffer of capacity 10 its count is
\* min(N, 10), for the pressure buffer and for the flow buffer.
C3_CountIsMin ==
    /\ pressureHistory.count = Min(Len(pressurePushed), PRESSURE_HISTORY_SIZE)
    /\ flowHistory.count = Min(Len(flowPushed), PRESSURE_HISTORY_SIZE)

C3_Witness ==
    /\ Len(flowPushed) = PRESSURE_HISTORY_SIZE + 2
    /\ flowHistory.count = PRESSURE_HISTORY_SIZE
    /\ flowHistory.index = 2

\* the mean of the last min(N, capacity) values pushed, 0 when none was pushed
MeanOfLast(pushed) ==
    LET last == LastN(pushed, PRESSURE_HISTORY_SIZE)
    IN  IF pushed = <<>> THEN [num |-> 0, den |-> 1]
        ELSE [num |-> SeqSum(last), den |-> Len(last)]

\* C4: the average of a history buffer is 0 before any push and otherwise the
\* arithmetic mean of exactly the last min(N, 10) values pushed.
C4_AverageIsMeanOfLast ==
    /\ REq(calculateAveragePressure(pressureHistory), MeanOfLast(pressurePushed))
    /\ REq(calculateAverageFlow(flowHistory), MeanOfLast(flowPushed))
    /\ pressurePushed = <<>> => calculateAveragePressure(pressureHistory).num = 0
    /\ flowPushed = <<>> => calculateAverageFlow(flowHistory).num = 0

C4_Witness ==
    /\ Len(pressurePushed) = PRESSURE_HISTORY_SIZE + 2
    /\ pressurePushed[1] = 3
    /\ pressurePushed[2] = 3
    /\ \A i \in 3 .. Len(pressurePushed) : pressurePushed[i] = 1
    /\ calculateAveragePressure(pressureHistory) = [num |-> 10, den |-> 10]

\* C5: in both paths the threshold is average * (1 + pct/100) with the pct of
\* the path's own mode, and the value is classified anomalous exactly when it
\* is strictly greater than the threshold.
C5_StrictThreshold ==
    ev.kind # "none" =>
        LET pct == IF ev.kind = "pressure" THEN currentConfig.pressureThreshold
                   ELSE currentConfig.flowThreshold
            hist == IF ev.kind = "pressure" THEN pressurePushed ELSE flowPushed
            factor == Rat(100 * PctScale + pct, 100 * PctScale)
        IN  /\ REq(ev.average, MeanOfLast(hist))
            /\ REq(ev.threshold, RMul(ev.average, factor))
            /\ ev.anomalous <=> (ev.live * ev.threshold.den > ev.threshold.num)

\* a flow evaluation with average 100 units, pct 20, live value equal to the threshold
C5_Witness ==
    /\ ev.kind = "flow"
    /\ ev.pct = 20 * PctScale
    /\ ev.live > 0
    /\ ev.live * ev.threshold.den = ev.threshold.num
    /\ ev.live * ev.average.den * 100 = ev.average.num * 120
    /\ ~ev.anomalous

\* the record written by the evaluation of the current iteration, if any
Written == ev.after = ev.before + 1
StorageOk == ev.card /\ ev.openOk

\* C6: with storage and a fix available, of two anomalous flow samples 1000 ms
\* apart the first is written and the second is not, and 3000 ms apart both
\* are, also when the first is the first flow anomaly after boot.
C6_FlowPairs ==
    (ev.kind = "flow" /\ ev.anomalous /\ ev.fix /\ StorageOk) =>
        /\ flowAnomalies = 1 => Written
        /\ (ev.before > 0 /\ ev.at - flowLog[ev.before].at = 1000) => ~Written
        /\ (ev.before > 0 /\ ev.at - flowLog[ev.before].at = 3000) => Written

\* C7: any two consecutive flow records are at least 2500 ms apart.
C7_FlowWritesApart ==
    \A i \in 1 .. (Len(flowLog) - 1) : flowLog[i + 1].at - flowLog[i].at >= LogGateMs

C7_Witness ==
    /\ Len(flowLog) = 2
    /\ flowLog[2].at - flowLog[1].at = 3000

\* C8: with storage and a fix available every anomalous pressure evaluation
\* appends exactly one record to the pressure log, and no other evaluation
\* appends any.
C8_PressureEveryAnomaly ==
    ev.kind = "pressure" =>
        /\ (ev.anomalous /\ ev.fix /\ StorageOk) => Written
        /\ ~ev.anomalous => ev.after = ev.before
        /\ ev.after = Len(gpsLog)

\* two consecutive anomalous samples 500 ms apart, two records
C8_Witness ==
    /\ ev.kind = "pressure"
    /\ ev.anomalous
    /\ Len(gpsLog) = 2
    /\ Len(pressurePushed) = 3
    /\ gpsLog[2].at - gpsLog[1].at = 500

\* C9: without a valid fix an anomaly writes no record to either log and the
\* logger appends no diagnostic; the iteration goes on to its end.
C9_NoFixNoRecord ==
    (ev.kind # "none" /\ ev.anomalous /\ ~ev.fix) =>
        /\ ev.after = ev.before
        /\ ev.loggerMsg = "none"
        /\ pc \in {"status", "loop", "gps", "sensor"}

C9_Witness ==
    /\ ev.kind = "flow"
    /\ ev.anomalous
    /\ ev.gate
    /\ ev.card
    /\ ~ev.fix
    /\ pc = "loop"

\* C10: when an anomaly is to be logged (a fix is valid) and the storage is
\* unavailable, the logger writes no record and appends a diagnostic.
C10_StorageFailureReported ==
    (ev.kind # "none" /\ ev.anomalous /\ ev.gate /\ ev.fix /\ ~StorageOk) =>
        /\ ev.after = ev.before
        /\ ev.loggerMsg # "none"

\* C11: after n calls of serialPrintln totalMessages is min(n, 100) and the
\* snapshot of handleSerial is exactly the last min(n, 100) records stored,
\* oldest first.
C11_SnapshotIsRecent ==
    /\ totalMessages = Min(Len(printed), SERIAL_BUFFER_SIZE)
    /\ Snapshot(Diag) = LastN(printed, SERIAL_BUFFER_SIZE)

\* capacity + 5 records: the 5 oldest are gone, the snapshot runs from the 6th to the last
C11_Witness ==
    /\ Len(printed) = SERIAL_BUFFER_SIZE + 5
    /\ totalMessages = SERIAL_BUFFER_SIZE
    /\ Snapshot(Diag)[1].message = "6"
    /\ Snapshot(Diag)[SERIAL_BUFFER_SIZE].message = "105"
    /\ Snapshot(Diag)[1].timestamp < Snapshot(Diag)[SERIAL_BUFFER_SIZE].timestamp

\* a threshold the load does not accept (not positive) leaves the default
\* of the fresh Config; any other value is to come back as it was applied
ThresholdKept(applied, loaded, default) ==
    IF applied > 0 THEN loaded = applied ELSE loaded = default

\* an empty string may come back empty or leave the default
StringKept(applied, loaded, default) ==
    IF applied # "" THEN loaded = applied ELSE loaded \in {"", default}

\* C12: the configuration left by handleConfig and saved by saveConfig is
\* reproduced field by field by loadConfig into a fresh Config, except for
\* the fields that were empty or invalid, which keep their prior (default) value.
C12_RoundTrip ==
    [][(pc = "saved" /\ pc' = "loaded") =>
         /\ StringKept(currentConfig.ssid, currentConfig'.ssid, DefaultConfig.ssid)
         /\ StringKept(currentConfig.password, currentConfig'.password, DefaultConfig.password)
         /\ StringKept(currentConfig.deviceName, currentConfig'.deviceName,
                       DefaultConfig.deviceName)
         /\ StringKept(currentConfig.currentSensor, currentConfig'.currentSensor,
                       DefaultConfig.currentSensor)
         /\ ThresholdKept(currentConfig.pressureThreshold, currentConfig'.pressureThreshold,
                          DefaultConfig.pressureThreshold)
         /\ ThresholdKept(currentConfig.flowThreshold, currentConfig'.flowThreshold,
                          DefaultConfig.flowThreshold)]_vars

\* C13: whenever the sensor of the active mode is usable, the response of
\* handlePressure carries the current value, the average and the threshold.
C13_ReadingCarriesValues ==
    (pc \notin SetupPcs /\ (currentConfig.currentSensor = "BMP" => bmpInitialized)) =>
        LET response == handlePressure(currentConfig, bmpInitialized)
        IN  /\ response.code = 200
            /\ {"current", "average", "threshold"} \subseteq response.keys

\* C14: whatever fails (sensor initialisation, readings, fix, card, file
\* opens), setup ends after at most 5 retries, every iteration that starts
\* runs to its end, and the next one starts: every run of the model ends
\* all its MaxIter iterations.
C14_LoopNeverHalts ==
    /\ [](retryCount <= BmpMaxRetries)
    /\ []<>(pc = "loop")
    /\ <>(pc = "loop" /\ iter = MaxIter)

\* all the iterations done with the sensor, the card and the fix missing
C14_Witness ==
    /\ pc = "loop"
    /\ iter = MaxIter
    /\ retryCount = BmpMaxRetries
    /\ ~bmpInitialized
    /\ ~sdCardAvailable
    /\ ~gpsValid
    /\ currentConfig.currentSensor = "BMP"

\* the message of the record serialPrintln stored last
LastMessage == IF printed = <<>> THEN "" ELSE printed[Len(printed)].message

\* a step of the pressure path with the sensor initialised
PressureStep ==
    /\ pc = "sensor"
    /\ pc' = "status"
    /\ currentConfig.currentSensor = "BMP"
    /\ bmpInitialized

\* C15: a call of checkPressureAndLog either evaluates a positive reading it
\* has pushed, or (the reading is not positive) appends one diagnostic and
\* leaves the pressure history, the event logs and the evaluation untouched.
C15_InvalidReadingFrame ==
    [][PressureStep =>
         \/ /\ ev'.kind = "pressure"
            /\ ev'.live > 0
            /\ pressurePushed' = Append(pressurePushed, ev'.live)
         \/ /\ ev' = NoEval
            /\ UNCHANGED <<pressureHistory, pressurePushed, gpsLog, flowLog>>
            /\ Len(printed') = Len(printed) + 1
            /\ LastMessage' = "Invalid pressure reading"]_vars

\* a reading that is not positive after one valid reading: the buffer still holds one value
C15_Witness ==
    /\ pc = "status"
    /\ currentConfig.currentSensor = "BMP"
    /\ bmpInitialized
    /\ ev = NoEval
    /\ LastMessage = "Invalid pressure reading"
    /\ pressureHistory.count = 1
    /\ pressureHistory.index = 1

\* C16: in pressure mode with the sensor not initialised, the sensor step of
\* an iteration pushes nothing, evaluates nothing and appends exactly one
\* diagnostic record.
C16_UninitialisedSensorReported ==
    [][(/\ pc = "sensor"
        /\ pc' = "status"
        /\ currentConfig.currentSensor = "BMP"
        /\ ~bmpInitialized) =>
         /\ UNCHANGED <<pressureHistory, pressurePushed, gpsLog>>
         /\ ev' = NoEval
         /\ Len(printed') = Len(printed) + 1]_vars

\* C17: a flow evaluation that passes the gate sets lastLogTime to the
\* current time whether or not a record is written, so an anomaly within
\* 2500 ms of that time is not logged.
C17_GateStampsTime ==
    ev.kind = "flow" =>
        /\ ev.gate => lastLogTime = ev.at
        /\ (ev.anomalous /\ ev.at > lastLogTime /\ ev.at - lastLogTime <= LogGateMs) =>
               (~ev.gate /\ ev.after = ev.before)

\* no record was ever written, yet an anomaly 500 ms after a suppressed one is blocked
C17_Witness ==
    /\ ev.kind = "flow"
    /\ ev.anomalous
    /\ ~ev.gate
    /\ flowLog = <<>>
    /\ lastLogTime > InitLastLogTime
    /\ ev.at - lastLogTime = 500

\* C18: checkFlowAndLog runs in every flow-mode iteration; it drains exactly
\* when at least 1000 ms have passed since lastCheckTime, a drain sets
\* lastCheckTime to the time of its iteration, and a sample is pushed exactly
\* once per drain.
C18_DrainPeriod ==
    [][/\ (pc = "sensor" /\ pc' # "sensor" /\ currentConfig.currentSensor # "BMP") =>
            (pc' = "flowRead" <=> now - lastCheckTime >= FlowCheckMs)
       /\ lastCheckTime' # lastCheckTime =>
            /\ pc = "flowAttach"
            /\ lastCheckTime' = now
            /\ lastCheckTime' - lastCheckTime >= FlowCheckMs
       /\ (pc = "flowAttach" /\ pc' = "flowEval") => lastCheckTime' = now
       /\ (pc = "flowEval" /\ pc' = "status") =>
            Len(flowPushed') = Len(flowPushed) + (IF ev.drained THEN 1 ELSE 0)
       /\ flowPushed' # flowPushed => (pc = "flowEval" /\ ev.drained)]_vars

\* the second drain, 3000 ms after the first: the timestamp is the time of the iteration
C18_Witness ==
    /\ pc = "status"
    /\ ev.kind = "flow"
    /\ ev.drained
    /\ Len(flowPushed) = 2
    /\ lastCheckTime = now
    /\ lastCheckTime = SetupDelayMs + 3000

\* the value written last into a history buffer
Newest(h) == h.readings[(h.index + PRESSURE_HISTORY_SIZE - 1) % PRESSURE_HISTORY_SIZE]

\* C19: in both paths the value an evaluation classifies has been pushed
\* before: it is the newest value of the mode's buffer, and the average used
\* is the average of the buffer that holds it.
C19_PushBeforeEvaluation ==
    /\ ev.kind = "pressure" =>
          /\ pressureHistory.count > 0
          /\ Newest(pressureHistory) = ev.live
          /\ pressurePushed[Len(pressurePushed)] = ev.live
          /\ REq(ev.average, calculateAveragePressure(pressureHistory))
    /\ ev.kind = "flow" =>
          /\ flowHistory.count > 0
          /\ Newest(flowHistory) = ev.live
          /\ flowPushed[Len(flowPushed)] = ev.live
          /\ REq(ev.average, calculateAverageFlow(flowHistory))

\* a flow evaluation in an iteration that did not drain: the value is the one
\* pushed by the drain before
C19_Witness ==
    /\ ev.kind = "flow"
    /\ ~ev.drained
    /\ ev.live > 0
    /\ flowHistory.count = 2
    /\ ev.anomalous

\* C20: a step of the interrupt handler (pulseCount changes and the main
\* program does not move) changes neither history buffer, nor the diagnostic
\* buffer, the configuration, flowRate or the timestamps.
C20_HandlerFrame ==
    [][(pulseCount' # pulseCount /\ pc' = pc) =>
         /\ pulseCount' = (pulseCount + 1) % PulseWidth
         /\ UNCHANGED <<pressureHistory, flowHistory, serialBuffer, serialBufferIndex,
                        totalMessages, currentConfig, flowRate, lastLogTime,
                        lastCheckTime, lastStatusUpdate, gpsLog, flowLog>>]_vars

\* the handler has run between the re-attach and the evaluation of a drain
C20_Witness ==
    /\ pc = "flowEval"
    /\ ev.drained
    /\ attached
    /\ pulseCount = 1
    /\ drainedCount = 1

\* a threshold line that holds a positive number is applied; any other line
\* leaves the threshold as it was
LineKept(line, loaded, previous) ==
    IF line.isNumber /\ line.value > 0 THEN loaded = line.value ELSE loaded = previous

\* C21: loadConfig leaves a threshold whose line is malformed, missing or not
\* positive at its previous value and applies every other field of the file.
C21_MalformedThresholdKept ==
    [][(pc = "stored" /\ pc' = "loaded") =>
         /\ LineKept(configFile.pressureThreshold, currentConfig'.pressureThreshold,
                     currentConfig.pressureThreshold)
         /\ LineKept(configFile.flowThreshold, currentConfig'.flowThreshold,
                     currentConfig.flowThreshold)
         /\ currentConfig'.ssid = Trim(configFile.ssid)
         /\ currentConfig'.password = Trim(configFile.password)
         /\ currentConfig'.deviceName = Trim(configFile.deviceName)
         /\ currentConfig'.currentSensor = Trim(configFile.currentSensor)]_vars

\* C22: in every reachable state the stored sensor mode is "BMP" or "YF401",
\* whatever was applied by a request or loaded from the card.
C22_ModeIsDefined == currentConfig.currentSensor \in {"BMP", "YF401"}

\* C23: a call of checkFlowAndLog entered with no time elapsed since the last
\* drain returns at once and changes nothing (no drain, push, evaluation or
\* log); the body is never entered with a zero elapsed time, and every rate is
\* the count scaled by 1000 / max(elapsed, 100), with elapsed at least 100 ms.
C23_ElapsedGuard ==
    [][/\ (pc = "sensor" /\ pc' # "sensor" /\ now = lastCheckTime) =>
            /\ pc' = "status"
            /\ UNCHANGED <<histVars, isrVars, attached, flowRate, clockVars, diagVars,
                           fileVars, drainedTotal, flowAnomalies, ev>>
       /\ (pc' \in {"flowRead", "flowZero", "flowAttach", "flowEval"}) => timeDiff' # 0
       /\ (pc = "flowRead" /\ pc' = "flowZero") =>
            /\ timeDiff >= MinElapsedMs
            /\ flowRate' = (pulseCount * FlowScale * 400) \div
                              (3 * Max(timeDiff, MinElapsedMs))]_vars

\* a call entered with edges counted and no time elapsed has returned
C23_Witness ==
    /\ pc = "status"
    /\ currentTime = lastCheckTime
    /\ timeDiff = 0
    /\ pulseCount > 0
    /\ flowPushed # <<>>
    /\ ev.kind = "none"

\* C24: a drain computes the rate from the count accumulated in the counter
\* and leaves the counter at 0; a drain that follows another with no edge
\* counted in between yields a rate of exactly 0.
C24_DrainIdempotent ==
    [][/\ (pc = "flowRead" /\ pc' = "flowZero") =>
            /\ flowRate' = FlowRateOf(pulseCount, timeDiff)
            /\ (flowRate' > 0) <=> (pulseCount > 0)
            /\ deliveredSinceZero = 0 => flowRate' = 0
       /\ (pc = "flowZero" /\ pc' = "flowAttach") => pulseCount' = 0]_vars

\* the second of two drains with no edge in between has computed its rate,
\* the first having drained a positive count
C24_Witness ==
    /\ pc = "flowZero"
    /\ flowPushed # <<>>
    /\ flowPushed[Len(flowPushed)] > 0
    /\ deliveredSinceZero = 0
    /\ edgesTotal = drainedTotal
    /\ flowRate = 0

\* the buffer and the pushes of the mode the current evaluation belongs to
EvalHistory == IF ev.kind = "pressure" THEN pressureHistory ELSE flowHistory
EvalPushed == IF ev.kind = "pressure" THEN pressurePushed ELSE flowPushed

\* C25: with a positive threshold percentage an evaluation whose live value is
\* not greater than any value held in the mode's buffer is not anomalous; so
\* are the evaluation of the first reading pushed into an empty buffer and of
\* a run of identical readings; before the first drain no flow evaluation is
\* anomalous, nothing is printed for the flow and the flow log is empty.
C25_NoAnomalyAtMinimum ==
    /\ (/\ ev.kind # "none"
        /\ ev.pct > 0
        /\ \A i \in 0 .. (EvalHistory.count - 1) : ev.live <= EvalHistory.readings[i])
          => ~ev.anomalous
    /\ (ev.kind # "none" /\ ev.pct > 0 /\ Len(EvalPushed) = 1) => ~ev.anomalous
    /\ (/\ ev.kind # "none"
        /\ ev.pct > 0
        /\ \A i \in 1 .. Len(EvalPushed) : EvalPushed[i] = ev.live)
          => ~ev.anomalous
    /\ flowPushed = <<>> =>
          /\ flowAnomalies = 0
          /\ flowLog = <<>>
          /\ ev.kind = "flow" => ~ev.anomalous
          /\ \A i \in 1 .. Len(printed) :
                printed[i].message # "Flow rate: %.2f L/min (Avg: %.2f/T: %.2f)"

\* a reading lower than one pushed before it, and so not greater than any
\* value of the buffer, has been evaluated and found not anomalous
C25_Witness ==
    /\ ev.kind = "pressure"
    /\ ev.pct > 0
    /\ EvalHistory.count >= 2
    /\ \A i \in 0 .. (EvalHistory.count - 1) : ev.live <= EvalHistory.readings[i]
    /\ \E i \in 0 .. (EvalHistory.count - 1) : ev.live < EvalHistory.readings[i]
    /\ ~ev.anomalous

====
